---- MODULE Spec2Model ----
(***************************************************************************)
(* Warbler (src/app.py): the Flask routes over the relational store.       *)
(*                                                                         *)
(* The state is the store (tables users, messages, follows, likes, their   *)
(* id sequences, the clock) and the client sessions.  Every route is an    *)
(* operator from the state before a request to the state after it and the  *)
(* response, covering the whole request: the before_request hook           *)
(* add_user_to_g, the handler body and its commit.  One action per route   *)
(* applies the operator to the current state.                              *)
(***************************************************************************)
EXTENDS Integers, Sequences, FiniteSets, TLC

\* ---------------------------------------------------------------- bounds
MaxUsers == 2
MaxMsgs == 1
MaxTime == 1

\* ------------------------------------------------------------ input sets
Sessions == {"s1", "s2"}
Usernames == {"alice", "bob"}
Emails == {"a@x.io", "b@x.io"}
Passwords == {"secret1", "secret2"}
Salts == {"salt"}
Texts == {"", "Hello"}

\* ids a request may name: every id the store can hold and one it never holds
ReqUserIds == 1 .. (MaxUsers + 1)
ReqMsgIds == 1 .. (MaxMsgs + 1)

NoUser == 0
NoMessage == 0

\* ------------------------------------------------------- program constants
TimelineLimit == 100

DefaultImageUrl == "/static/images/default-pic.png"
DefaultHeaderImageUrl == "/static/images/warbler-hero.jpg"

VARIABLES
    users,        \* id -> row of table users (existing users only)
    messages,     \* id -> row of table messages (existing messages only)
    follows,      \* set of <<user_following_id, user_being_followed_id>>
    likes,        \* set of <<user_id, message_id>>
    next_user_id, \* users.id sequence
    next_msg_id,  \* messages.id sequence
    clock,        \* utcnow(), never decreasing
    session,      \* client session -> session[CURR_USER_KEY], NoUser if absent
    signups,      \* history: id -> the username and password the user signed up with
    like_txn      \* client session -> its add_like request in flight, NoTxn if none

vars == <<users, messages, follows, likes, next_user_id, next_msg_id, clock,
          session, signups, like_txn>>

\* the state as one value, for the route operators
State ==
    [users |-> users, messages |-> messages, follows |-> follows, likes |-> likes,
     next_user_id |-> next_user_id, next_msg_id |-> next_msg_id, clock |-> clock,
     session |-> session, signups |-> signups]

\* the outcome of a request: the state it leaves and the response it sends
Result(st, status, flash, page, body) ==
    [st |-> st, status |-> status, flash |-> flash, page |-> page, body |-> body]

\* ------------------------------------------------------ Credential Store
\* bcrypt.generate_password_hash: a salted one-way digest, kept symbolic.
generate_password_hash(password, salt) == <<"bcrypt", salt, password>>

\* bcrypt.check_password_hash: re-hash with the stored salt and compare.
check_password_hash(hash, password) ==
    hash = generate_password_hash(password, hash[2])

\* ----------------------------------------------------------- models (ORM)
\* User.query.get(id)
UserGet(st, id) == IF id \in DOMAIN st.users THEN id ELSE NoUser

\* Message.query.get(id)
MessageGet(st, id) == IF id \in DOMAIN st.messages THEN id ELSE NoMessage

\* unique indexes users.username, users.email: would the row of self collide?
UsersUniqueViolation(st, self, username, email) ==
    \E u \in DOMAIN st.users \ {self} :
        st.users[u].username = username \/ st.users[u].email = email

\* User.authenticate(username, password)
Authenticate(st, username, password) ==
    LET found == {u \in DOMAIN st.users : st.users[u].username = username}
    IN  IF found = {} THEN NoUser
        ELSE LET u == CHOOSE x \in found : TRUE
             IN  IF check_password_hash(st.users[u].password, password)
                 THEN u ELSE NoUser

\* User.is_following(other) / User.is_followed_by(other)
is_following(st, self, other) == <<self, other>> \in st.follows
is_followed_by(st, self, other) == <<other, self>> \in st.follows

\* user.following
following(st, u) == {e[2] : e \in {f \in st.follows : f[1] = u}}

\* user.following.append(other), flushed at commit: the collection is the set
\* of the user's follow edges, and the flush writes a row only for a member
\* the loaded collection did not hold
following_append(st, u, other) == st.follows \cup {<<u, other>>}

\* likes(user_id, message_id): UNIQUE(user_id, message_id), and both columns
\* reference existing rows; would the INSERT of the row be refused at commit?
LikesConstraintViolation(st, user_id, message_id) ==
    \/ <<user_id, message_id>> \in st.likes
    \/ user_id \notin DOMAIN st.users
    \/ message_id \notin DOMAIN st.messages

\* ON DELETE CASCADE of likes.message_id
MessageCascade(st, gone) == {l \in st.likes : l[2] \notin gone}

\* db.session.delete(user): the rows that go with the user's row
UserCascade(st, u) ==
    LET gone == {m \in DOMAIN st.messages : st.messages[m].user_id = u}
    IN  [st EXCEPT
            !.users = [x \in DOMAIN st.users \ {u} |-> st.users[x]],
            !.messages = [m \in DOMAIN st.messages \ gone |-> st.messages[m]],
            !.likes = {l \in MessageCascade(st, gone) : l[1] # u},
            !.follows = {f \in st.follows : f[1] # u /\ f[2] # u},
            !.signups = [x \in DOMAIN st.signups \ {u} |-> st.signups[x]]]

\* ------------------------------------------------------- request plumbing
\* add_user_to_g that takes the session's id for the user without the lookup
add_user_to_g_unchecked(st, s) == st.session[s]

\* @app.before_request add_user_to_g: g.user for the session's request
add_user_to_g(st, s) ==
    IF st.session[s] # NoUser THEN UserGet(st, st.session[s]) ELSE NoUser

\* do_login(user)
do_login(st, s, u) == [st EXCEPT !.session[s] = u]

\* do_logout that leaves CURR_USER_KEY in the session
do_logout_keeps_key(st, s) == st

\* do_logout()
do_logout(st, s) == [st EXCEPT !.session[s] = NoUser]

\* flash("Access unauthorized.", "danger"); return redirect(to)
Unauthorized(st, to) == Result(st, 302, "Access unauthorized.", to, <<>>)

\* an exception no handler catches: nothing is committed
ServerError(st, what) == Result(st, 500, "", what, <<>>)

\* get_or_404 found nothing: errorhandler(404)
NotFound(st) == Result(st, 404, "", "404.html", <<>>)

\* ------------------------------------------------------------- forms.py
\* the forms clients submit: two distinct accounts, one that collides with the
\* first on username and with the second on e-mail, one with no username
UserAddForms ==
    {[username |-> "alice", email |-> "a@x.io", password |-> "secret1", image_url |-> ""],
     [username |-> "bob", email |-> "b@x.io", password |-> "secret2", image_url |-> ""],
     [username |-> "alice", email |-> "b@x.io", password |-> "secret2", image_url |-> ""],
     [username |-> "", email |-> "a@x.io", password |-> "secret1", image_url |-> ""]}
LoginForms ==
    [username : Usernames, password : Passwords]
        \cup {[username |-> "", password |-> "secret1"]}
MessageForms == [text : Texts]
UserEditForms ==
    {[username |-> n, email |-> e, password |-> p, image_url |-> "/me.png",
      header_image_url |-> "", bio |-> "bio", location |-> "here"] :
        n \in Usernames, e \in Emails, p \in Passwords}
    \cup {[username |-> "", email |-> "a@x.io", password |-> "secret1",
           image_url |-> "", header_image_url |-> "", bio |-> "", location |-> ""]}

\* form.validate_on_submit(): a POST whose required fields are filled in
validate_on_submit(form) ==
    /\ "username" \in DOMAIN form => form.username # ""
    /\ "text" \in DOMAIN form => form.text # ""

\* ------------------------------------------------- signup / login / logout
\* User.signup(username, email, password, image_url): the new row
UserSignup(form, salt) ==
    [username |-> form.username,
     email |-> form.email,
     password |-> generate_password_hash(form.password, salt),
     image_url |-> IF form.image_url # "" THEN form.image_url ELSE DefaultImageUrl,
     header_image_url |-> DefaultHeaderImageUrl,
     bio |-> "",
     location |-> ""]

\* signup whose except branch falls through to do_login and the redirect
signup_falls_through(st, s, form, salt) ==
    IF ~validate_on_submit(form)
    THEN Result(st, 200, "", "users/signup.html", <<>>)
    ELSE IF UsersUniqueViolation(st, NoUser, form.username, form.email)
    THEN Result(do_login(st, s, st.next_user_id), 302, "Username already taken",
                "/", <<>>)
    ELSE LET id == st.next_user_id
             added == [st EXCEPT
                 !.users = @ @@ (id :> UserSignup(form, salt)),
                 !.next_user_id = @ + 1,
                 !.signups = @ @@ (id :> [username |-> form.username,
                                          password |-> form.password])]
         IN  Result(do_login(added, s, id), 302, "Welcome to Warbler", "/", <<>>)

\* @app.route('/signup', methods=["GET", "POST"])
signup(st, s, form, salt) ==
    IF ~validate_on_submit(form)
    THEN Result(st, 200, "", "users/signup.html", <<>>)
    ELSE IF UsersUniqueViolation(st, NoUser, form.username, form.email)
    THEN \* IntegrityError at commit
         Result(st, 200, "Username already taken", "users/signup.html", <<>>)
    ELSE LET id == st.next_user_id
             added == [st EXCEPT
                 !.users = @ @@ (id :> UserSignup(form, salt)),
                 !.next_user_id = @ + 1,
                 !.signups = @ @@ (id :> [username |-> form.username,
                                          password |-> form.password])]
         IN  Result(do_login(added, s, id), 302, "Welcome to Warbler", "/", <<>>)

\* login that greets the user without calling do_login
login_not_logged_in(st, s, form) ==
    IF ~validate_on_submit(form)
    THEN Result(st, 200, "", "users/login.html", <<>>)
    ELSE LET user == Authenticate(st, form.username, form.password)
         IN  IF user # NoUser
             THEN Result(st, 302, "Hello, " \o st.users[user].username, "/", <<>>)
             ELSE Result(st, 200, "Invalid credentials.", "users/login.html", <<>>)

\* login that tells a username nobody has from a password that does not match
login_tells_unknown_user(st, s, form) ==
    IF ~validate_on_submit(form)
    THEN Result(st, 200, "", "users/login.html", <<>>)
    ELSE LET user == Authenticate(st, form.username, form.password)
         IN  IF user # NoUser
             THEN Result(do_login(st, s, user), 302, "Hello, " \o st.users[user].username,
                         "/", <<>>)
             ELSE IF \A u \in DOMAIN st.users : st.users[u].username # form.username
             THEN Result(st, 200, "Unknown username.", "users/login.html", <<>>)
             ELSE Result(st, 200, "Invalid credentials.", "users/login.html", <<>>)

\* @app.route('/login', methods=["GET", "POST"])
login(st, s, form) ==
    IF ~validate_on_submit(form)
    THEN Result(st, 200, "", "users/login.html", <<>>)
    ELSE LET user == Authenticate(st, form.username, form.password)
         IN  IF user # NoUser
             THEN Result(do_login(st, s, user), 302, "Hello, " \o st.users[user].username,
                         "/", <<>>)
             ELSE Result(st, 200, "Invalid credentials.", "users/login.html", <<>>)

\* @app.route('/logout')
logout(st, s) ==
    Result(do_logout(st, s), 302, "You have been successfully logged out.",
           "/login", <<>>)

\* ------------------------------------------------------ timeline queries
\* every order the store may give rows of equal timestamp
TieOrders(st, cand) ==
    LET ts == [m \in cand |-> st.messages[m].timestamp]
        tied == {m \in cand : \E n \in cand : n # m /\ ts[n] = ts[m]}
    IN  {r \in [tied -> 1 .. Cardinality(tied)] :
            \A a, b \in tied : a # b => r[a] # r[b]}

Before(st, m, n, rank) ==
    \/ st.messages[m].timestamp > st.messages[n].timestamp
    \/ /\ st.messages[m].timestamp = st.messages[n].timestamp
       /\ rank[m] < rank[n]

\* rows at their places, as a sequence
RowsInPlace(placed) ==
    [i \in 1 .. Cardinality(placed) |-> (CHOOSE p \in placed : p[1] = i)[2]]

\* .order_by(Message.timestamp.desc()): each row at the place given by the
\* number of rows that come before it
OrderByTimestampDesc(st, cand, rank) ==
    RowsInPlace({<<1 + Cardinality({n \in cand : n # m /\ Before(st, n, m, rank)}), m>> :
                    m \in cand})

\* .limit(n)
Limit(rows, n) == SubSeq(rows, 1, IF Len(rows) < n THEN Len(rows) ELSE n)

\* Message.query.filter(Message.user_id.in_(followed_users_ids))
HomeCandidates(st, u) ==
    {m \in DOMAIN st.messages : st.messages[m].user_id \in following(st, u)}

\* Message.query.filter(Message.user_id == user_id)
UserCandidates(st, user_id) ==
    {m \in DOMAIN st.messages : st.messages[m].user_id = user_id}

\* ------------------------------------------------------------ user routes
\* @app.route('/users/<int:user_id>')
users_show(st, s, user_id, rank) ==
    IF UserGet(st, user_id) = NoUser THEN NotFound(st)
    ELSE Result(st, 200, "", "users/show.html",
                Limit(OrderByTimestampDesc(st, UserCandidates(st, user_id), rank),
                      TimelineLimit))

\* @app.route('/users/<int:user_id>/following')
show_following(st, s, user_id) ==
    IF add_user_to_g(st, s) = NoUser
    THEN Result(st, 302, "Access unauthorized. Please log in.", "/", <<>>)
    ELSE IF UserGet(st, user_id) = NoUser THEN NotFound(st)
    ELSE Result(st, 200, "", "users/following.html", <<>>)

\* @app.route('/users/<int:user_id>/followers')
users_followers(st, s, user_id) ==
    IF add_user_to_g(st, s) = NoUser
    THEN Result(st, 302, "Access unauthorized. Please log in.", "/", <<>>)
    ELSE IF UserGet(st, user_id) = NoUser THEN NotFound(st)
    ELSE Result(st, 200, "", "users/followers.html", <<>>)

\* add_follow with the edge appended the wrong way round
add_follow_reversed(st, s, follow_id) ==
    LET u == add_user_to_g(st, s)
    IN  IF u = NoUser THEN Unauthorized(st, "/")
        ELSE IF UserGet(st, follow_id) = NoUser THEN NotFound(st)
        ELSE Result([st EXCEPT !.follows = following_append(st, follow_id, u)],
                    302, "", "/users/following", <<>>)

\* add_follow that writes the row for the pair itself, whether or not the
\* pair is there: the store refuses the second row at commit
add_follow_blind_insert(st, s, follow_id) ==
    LET u == add_user_to_g(st, s)
    IN  IF u = NoUser THEN Unauthorized(st, "/")
        ELSE IF UserGet(st, follow_id) = NoUser THEN NotFound(st)
        ELSE IF <<u, follow_id>> \in st.follows
        THEN ServerError(st, "IntegrityError")
        ELSE Result([st EXCEPT !.follows = following_append(st, u, follow_id)],
                    302, "", "/users/following", <<>>)

\* @app.route('/users/follow/<int:follow_id>', methods=['POST'])
add_follow(st, s, follow_id) ==
    LET u == add_user_to_g(st, s)
    IN  IF u = NoUser THEN Unauthorized(st, "/")
        ELSE IF UserGet(st, follow_id) = NoUser THEN NotFound(st)
        ELSE Result([st EXCEPT !.follows = following_append(st, u, follow_id)],
                    302, "", "/users/following", <<>>)

\* @app.route('/users/stop-following/<int:follow_id>', methods=['POST'])
stop_following(st, s, follow_id) ==
    LET u == add_user_to_g(st, s)
    IN  IF u = NoUser THEN Unauthorized(st, "/")
        ELSE IF UserGet(st, follow_id) = NoUser \/ <<u, follow_id>> \notin st.follows
        THEN \* g.user.following.remove(x) with x not in the list
             ServerError(st, "ValueError")
        ELSE Result([st EXCEPT !.follows = @ \ {<<u, follow_id>>}],
                    302, "", "/users/following", <<>>)

\* @app.route('/users/profile', methods=["GET", "POST"])
profile(st, s, form) ==
    LET u == add_user_to_g(st, s)
    IN  IF u = NoUser THEN Unauthorized(st, "/login")
        ELSE IF ~validate_on_submit(form)
        THEN Result(st, 200, "", "users/edit.html", <<>>)
        ELSE IF ~check_password_hash(st.users[u].password, form.password)
        THEN Result(st, 200, "Invalid current password. Please try again.",
                    "users/edit.html", <<>>)
        ELSE IF UsersUniqueViolation(st, u, form.username, form.email)
        THEN \* IntegrityError at commit, not caught
             ServerError(st, "IntegrityError")
        ELSE Result([st EXCEPT !.users[u] =
                        [username |-> form.username,
                         email |-> form.email,
                         password |-> @.password,
                         image_url |-> form.image_url,
                         header_image_url |->
                             IF form.header_image_url = "" THEN DefaultHeaderImageUrl
                             ELSE form.header_image_url,
                         bio |-> form.bio,
                         location |-> form.location]],
                    302, "Profile updated successfully.", "/users/show", <<>>)

\* delete_user that logs out and redirects without deleting the row
delete_user_not_deleted(st, s) ==
    LET u == add_user_to_g(st, s)
    IN  IF u = NoUser THEN Unauthorized(st, "/")
        ELSE Result(do_logout(st, s), 302, "", "/signup", <<>>)

\* @app.route('/users/delete', methods=["POST"])
delete_user(st, s) ==
    LET u == add_user_to_g(st, s)
    IN  IF u = NoUser THEN Unauthorized(st, "/")
        ELSE Result(UserCascade(do_logout(st, s), u), 302, "", "/signup", <<>>)

\* messages_add without the g.user check
messages_add_unchecked(st, s, form, now) ==
    LET u == add_user_to_g(st, s)
    IN  IF ~validate_on_submit(form)
        THEN Result(st, 200, "", "messages/new.html", <<>>)
        ELSE Result([st EXCEPT
                        !.messages = @ @@ (st.next_msg_id :>
                            [text |-> form.text, timestamp |-> now, user_id |-> u]),
                        !.next_msg_id = @ + 1,
                        !.clock = now],
                    302, "", "/users/show", <<>>)

\* --------------------------------------------------------- message routes
\* @app.route('/messages/new', methods=["GET", "POST"])
messages_add(st, s, form, now) ==
    LET u == add_user_to_g(st, s)
    IN  IF u = NoUser THEN Unauthorized(st, "/")
        ELSE IF ~validate_on_submit(form)
        THEN Result(st, 200, "", "messages/new.html", <<>>)
        ELSE Result([st EXCEPT
                        !.messages = @ @@ (st.next_msg_id :>
                            [text |-> form.text, timestamp |-> now, user_id |-> u]),
                        !.next_msg_id = @ + 1,
                        !.clock = now],
                    302, "", "/users/show", <<>>)

\* @app.route('/messages/<int:message_id>', methods=["GET"])
messages_show(st, s, message_id) ==
    Result(st, 200, "", "messages/show.html", <<MessageGet(st, message_id)>>)

\* messages_destroy that removes the message's row and leaves its likes
messages_destroy_keeps_likes(st, s, message_id) ==
    LET u == add_user_to_g(st, s)
    IN  IF u = NoUser THEN Unauthorized(st, "/")
        ELSE IF MessageGet(st, message_id) = NoMessage
        THEN ServerError(st, "UnmappedInstanceError")
        ELSE Result([st EXCEPT
                        !.messages = [m \in DOMAIN @ \ {message_id} |-> @[m]]],
                    302, "", "/users/show", <<>>)

\* @app.route('/messages/<int:message_id>/delete', methods=["POST"])
messages_destroy(st, s, message_id) ==
    LET u == add_user_to_g(st, s)
    IN  IF u = NoUser THEN Unauthorized(st, "/")
        ELSE IF MessageGet(st, message_id) = NoMessage
        THEN \* db.session.delete(None)
             ServerError(st, "UnmappedInstanceError")
        ELSE Result([st EXCEPT
                        !.messages = [m \in DOMAIN @ \ {message_id} |-> @[m]],
                        !.likes = MessageCascade(st, {message_id})],
                    302, "", "/users/show", <<>>)

\* homepage with the query's .limit(100) left out
homepage_unlimited(st, s, rank) ==
    LET u == add_user_to_g(st, s)
    IN  IF u # NoUser
        THEN Result(st, 200, "", "home.html",
                    OrderByTimestampDesc(st, HomeCandidates(st, u), rank))
        ELSE Result(st, 200, "", "home-anon.html", <<>>)

\* ---------------------------------------------------------------- homepage
\* @app.route('/')
homepage(st, s, rank) ==
    LET u == add_user_to_g(st, s)
    IN  IF u # NoUser
        THEN Result(st, 200, "", "home.html",
                    Limit(OrderByTimestampDesc(st, HomeCandidates(st, u), rank),
                          TimelineLimit))
        ELSE Result(st, 200, "", "home-anon.html", <<>>)

\* -------------------------------------------------------------- like routes
\* add_like that looks the like up by message only, whoever made it
add_like_any_user(st, s, message_id) ==
    LET u == add_user_to_g(st, s)
    IN  IF u = NoUser THEN Unauthorized(st, "/login")
        ELSE IF MessageGet(st, message_id) = NoMessage THEN NotFound(st)
        ELSE IF \E l \in st.likes : l[2] = message_id
        THEN Result([st EXCEPT !.likes = @ \ {<<u, message_id>>}],
                    302, "You've unliked the message.", "/", <<>>)
        ELSE Result([st EXCEPT !.likes = @ \cup {<<u, message_id>>}],
                    302, "You've liked the message.", "/", <<>>)

\* @app.route('/users/add_like/<int:message_id>', methods=['POST'])
add_like(st, s, message_id) ==
    LET u == add_user_to_g(st, s)
    IN  IF u = NoUser THEN Unauthorized(st, "/login")
        ELSE IF MessageGet(st, message_id) = NoMessage THEN NotFound(st)
        ELSE IF <<u, message_id>> \in st.likes
        THEN Result([st EXCEPT !.likes = @ \ {<<u, message_id>>}],
                    302, "You've unliked the message.", "/", <<>>)
        ELSE Result([st EXCEPT !.likes = @ \cup {<<u, message_id>>}],
                    302, "You've liked the message.", "/", <<>>)

\* no add_like request in flight
NoTxn == [user |-> NoUser, message |-> NoMessage, like |-> FALSE]

\* add_like up to its query: g.user, the message, and whether
\* Likes.query.filter_by(user_id, message_id).first() found a row
add_like_begin(st, s, message_id) ==
    LET u == add_user_to_g(st, s)
    IN  IF u = NoUser \/ MessageGet(st, message_id) = NoMessage THEN NoTxn
        ELSE [user |-> u, message |-> message_id, like |-> <<u, message_id>> \in st.likes]

\* add_like's commit that reports the like whatever the store says
add_like_commit_unconstrained(st, t) ==
    IF t.like
    THEN Result([st EXCEPT !.likes = @ \ {<<t.user, t.message>>}],
                302, "You've unliked the message.", "/", <<>>)
    ELSE Result([st EXCEPT !.likes = @ \cup {<<t.user, t.message>>}],
                302, "You've liked the message.", "/", <<>>)

\* add_like from its query on: the branch the query chose, and its commit
\* against the store as it is by then
add_like_commit(st, t) ==
    IF t.like
    THEN \* db.session.delete(like): a row already gone deletes nothing
         Result([st EXCEPT !.likes = @ \ {<<t.user, t.message>>}],
                302, "You've unliked the message.", "/", <<>>)
    ELSE IF LikesConstraintViolation(st, t.user, t.message)
    THEN \* db.session.add(new_like): IntegrityError at commit, not caught
         ServerError(st, "IntegrityError")
    ELSE Result([st EXCEPT !.likes = @ \cup {<<t.user, t.message>>}],
                302, "You've liked the message.", "/", <<>>)

\* @app.route('/users/remove_like/<int:message_id>', methods=['POST'])
remove_like(st, s, message_id) ==
    LET u == add_user_to_g(st, s)
    IN  IF u = NoUser THEN Unauthorized(st, "/login")
        ELSE IF MessageGet(st, message_id) = NoMessage THEN NotFound(st)
        ELSE IF <<u, message_id>> \notin st.likes
        THEN Result(st, 302, "You haven't liked this warble yet.", "/users/likes", <<>>)
        ELSE Result([st EXCEPT !.likes = @ \ {<<u, message_id>>}],
                    302, "Warble unliked.", "/users/likes", <<>>)

\* @app.route('/users/<int:user_id>/likes')
show_likes(st, s, user_id) ==
    IF add_user_to_g(st, s) = NoUser THEN Unauthorized(st, "/login")
    ELSE IF UserGet(st, user_id) = NoUser THEN NotFound(st)
    ELSE Result(st, 200, "", "users/likes.html", <<>>)

\* ------------------------------------------------------------ specification
Init ==
    /\ users = <<>>
    /\ messages = <<>>
    /\ follows = {}
    /\ likes = {}
    /\ next_user_id = 1
    /\ next_msg_id = 1
    /\ clock = 1
    /\ session = [s \in Sessions |-> NoUser]
    /\ signups = <<>>
    /\ like_txn = [s \in Sessions |-> NoTxn]

\* a request is served: the state becomes the one its route leaves
Serve(r) ==
    /\ users' = r.st.users
    /\ messages' = r.st.messages
    /\ follows' = r.st.follows
    /\ likes' = r.st.likes
    /\ next_user_id' = r.st.next_user_id
    /\ next_msg_id' = r.st.next_msg_id
    /\ clock' = r.st.clock
    /\ session' = r.st.session
    /\ signups' = r.st.signups
    /\ UNCHANGED like_txn

\* one action per route: some client sends some request
signup_request ==
    \E s \in Sessions, form \in UserAddForms, salt \in Salts :
        LET r == signup(State, s, form, salt)
        IN  r.st.next_user_id <= MaxUsers + 1 /\ Serve(r)

login_request == \E s \in Sessions, form \in LoginForms : Serve(login(State, s, form))

logout_request == \E s \in Sessions : Serve(logout(State, s))

users_show_request ==
    \E s \in Sessions, id \in ReqUserIds :
        \E rank \in TieOrders(State, UserCandidates(State, id)) :
            Serve(users_show(State, s, id, rank))

show_following_request ==
    \E s \in Sessions, id \in ReqUserIds : Serve(show_following(State, s, id))

users_followers_request ==
    \E s \in Sessions, id \in ReqUserIds : Serve(users_followers(State, s, id))

add_follow_request ==
    \E s \in Sessions, id \in ReqUserIds : Serve(add_follow(State, s, id))

stop_following_request ==
    \E s \in Sessions, id \in ReqUserIds : Serve(stop_following(State, s, id))

profile_request ==
    \E s \in Sessions, form \in UserEditForms : Serve(profile(State, s, form))

delete_user_request == \E s \in Sessions : Serve(delete_user(State, s))

messages_add_request ==
    \E s \in Sessions, form \in MessageForms, now \in clock .. MaxTime :
        LET r == messages_add(State, s, form, now)
        IN  r.st.next_msg_id <= MaxMsgs + 1 /\ Serve(r)

messages_show_request ==
    \E s \in Sessions, id \in ReqMsgIds : Serve(messages_show(State, s, id))

messages_destroy_request ==
    \E s \in Sessions, id \in ReqMsgIds : Serve(messages_destroy(State, s, id))

homepage_request ==
    \E s \in Sessions :
        \E rank \in TieOrders(State, HomeCandidates(State, add_user_to_g(State, s))) :
            Serve(homepage(State, s, rank))

add_like_request ==
    \E s \in Sessions, id \in ReqMsgIds : Serve(add_like(State, s, id))

remove_like_request ==
    \E s \in Sessions, id \in ReqMsgIds : Serve(remove_like(State, s, id))

show_likes_request ==
    \E s \in Sessions, id \in ReqUserIds : Serve(show_likes(State, s, id))

Next ==
    \/ signup_request
    \/ login_request
    \/ logout_request
    \/ users_show_request
    \/ show_following_request
    \/ users_followers_request
    \/ add_follow_request
    \/ stop_following_request
    \/ profile_request
    \/ delete_user_request
    \/ messages_add_request
    \/ messages_show_request
    \/ messages_destroy_request
    \/ homepage_request
    \/ add_like_request
    \/ remove_like_request
    \/ show_likes_request

Spec == Init /\ [][Next]_vars

\* ------------------------------------------- a store with a long timeline
\* how far the number of stored messages goes past the timeline limit
BulkExtra == 2

BulkSizes == TimelineLimit .. (TimelineLimit + BulkExtra)

\* Two users have signed up and logged in, and user 2 has posted n messages
\* (one of them, other, is by user 1 instead); the messages tie at and tie + 1
\* were posted at the same time.
InitTimeline ==
    \E n \in BulkSizes : \E tie \in {0, 1, n - 1}, other \in {0, n} :
        /\ users = <<UserSignup([username |-> "alice", email |-> "a@x.io",
                                 password |-> "secret1", image_url |-> ""], "salt"),
                     UserSignup([username |-> "bob", email |-> "b@x.io",
                                 password |-> "secret2", image_url |-> ""], "salt")>>
        /\ signups = <<[username |-> "alice", password |-> "secret1"],
                       [username |-> "bob", password |-> "secret2"]>>
        /\ messages = [i \in 1 .. n |->
                          [text |-> "Hello",
                           timestamp |-> IF tie > 0 /\ i > tie THEN i - 1 ELSE i,
                           user_id |-> IF i = other THEN 1 ELSE 2]]
        /\ follows = {}
        /\ likes = {}
        /\ next_user_id = 3
        /\ next_msg_id = n + 1
        /\ clock = n
        /\ session = [s \in Sessions |-> IF s = "s1" THEN 1 ELSE 2]
        /\ like_txn = [s \in Sessions |-> NoTxn]

NextTimeline ==
    \/ add_follow_request
    \/ stop_following_request
    \/ homepage_request

SpecTimeline == InitTimeline /\ [][NextTimeline]_vars

\* --------------------------------------- add_like requests run in parallel
\* a session's add_like request runs up to its query and stays in flight
add_like_begin_step ==
    \E s \in Sessions, id \in ReqMsgIds :
        /\ like_txn[s] = NoTxn
        /\ add_like_begin(State, s, id) # NoTxn
        /\ like_txn' = [like_txn EXCEPT ![s] = add_like_begin(State, s, id)]
        /\ UNCHANGED <<users, messages, follows, likes, next_user_id, next_msg_id,
                       clock, session, signups>>

\* a request in flight commits
add_like_commit_step ==
    \E s \in Sessions :
        /\ like_txn[s] # NoTxn
        /\ LET r == add_like_commit(State, like_txn[s])
           IN  /\ users' = r.st.users
               /\ messages' = r.st.messages
               /\ follows' = r.st.follows
               /\ likes' = r.st.likes
               /\ next_user_id' = r.st.next_user_id
               /\ next_msg_id' = r.st.next_msg_id
               /\ clock' = r.st.clock
               /\ session' = r.st.session
               /\ signups' = r.st.signups
        /\ like_txn' = [like_txn EXCEPT ![s] = NoTxn]

\* Two users have signed up and the first has posted MaxMsgs messages; the
\* sessions are logged out.
InitLikeRace ==
    /\ users = <<UserSignup([username |-> "alice", email |-> "a@x.io",
                             password |-> "secret1", image_url |-> ""], "salt"),
                 UserSignup([username |-> "bob", email |-> "b@x.io",
                             password |-> "secret2", image_url |-> ""], "salt")>>
    /\ signups = <<[username |-> "alice", password |-> "secret1"],
                   [username |-> "bob", password |-> "secret2"]>>
    /\ messages = [i \in 1 .. MaxMsgs |->
                      [text |-> "Hello", timestamp |-> 1, user_id |-> 1]]
    /\ follows = {}
    /\ likes = {}
    /\ next_user_id = 3
    /\ next_msg_id = MaxMsgs + 1
    /\ clock = 1
    /\ session = [s \in Sessions |-> NoUser]
    /\ like_txn = [s \in Sessions |-> NoTxn]

NextLikeRace ==
    \/ login_request
    \/ logout_request
    \/ add_like_begin_step
    \/ add_like_commit_step
    \/ add_like_request
    \/ remove_like_request
    \/ messages_destroy_request
    \/ delete_user_request

SpecLikeRace == InitLikeRace /\ [][NextLikeRace]_vars

\* ===================================================================== claims
\* a response that is the route's success redirect to page
Redirected(r, page) == r.status = 302 /\ r.page = page

\* the Unauthorized outcome: the "Access unauthorized" flash and a redirect
IsUnauthorized(r) ==
    /\ r.status = 302
    /\ r.flash \in {"Access unauthorized.", "Access unauthorized. Please log in."}

\* C1: right after a successful add_follow(B) by A the edge (A, B) is in the
\* follow relation, so A.is_following(B) and B.is_followed_by(A) hold; right
\* after A's stop_following(B) on that edge both are false.
C1_FollowThenUnfollow ==
    \A s \in Sessions, b \in ReqUserIds :
        LET a == add_user_to_g(State, s)
            added == add_follow(State, s, b)
            removed == stop_following(State, s, b)
        IN  /\ (a # NoUser /\ Redirected(added, "/users/following")) =>
                /\ <<a, b>> \in added.st.follows
                /\ is_following(added.st, a, b)
                /\ is_followed_by(added.st, b, a)
            /\ (a # NoUser /\ <<a, b>> \in follows) =>
                /\ Redirected(removed, "/users/following")
                /\ <<a, b>> \notin removed.st.follows
                /\ ~is_following(removed.st, a, b)
                /\ ~is_followed_by(removed.st, b, a)

\* C1 witness: A, logged in, follows another user B after a successful
\* add_follow, and B does not follow A: the next add_follow and stop_following
\* each have their case.
C1_Witness ==
    \E s \in Sessions, b \in DOMAIN users :
        LET a == add_user_to_g(State, s)
        IN  a # NoUser /\ a # b /\ <<a, b>> \in follows /\ <<b, a>> \notin follows

\* C2: two consecutive add_like requests by one logged-in user on one existing
\* message leave the like relation as it was: liked, then unliked, or the
\* other way round.
C2_ToggleLikeInvolution ==
    \A s \in Sessions, m \in DOMAIN messages :
        LET u == add_user_to_g(State, s)
            first == add_like(State, s, m)
            second == add_like(first.st, s, m)
        IN  u # NoUser =>
                /\ second.st.likes = likes
                /\ first.st.likes # likes
                /\ <<u, m>> \in likes =>
                       /\ first.flash = "You've unliked the message."
                       /\ second.flash = "You've liked the message."
                /\ <<u, m>> \notin likes =>
                       /\ first.flash = "You've liked the message."
                       /\ second.flash = "You've unliked the message."

\* C2 witness: a message that one logged-in user has liked and another
\* logged-in user has not.
C2_Witness ==
    \E s1 \in Sessions, s2 \in Sessions, m \in DOMAIN messages :
        /\ add_user_to_g(State, s1) # NoUser
        /\ add_user_to_g(State, s2) # NoUser
        /\ <<add_user_to_g(State, s1), m>> \in likes
        /\ <<add_user_to_g(State, s2), m>> \notin likes

\* C3: after delete_user by the logged-in user U the store holds no user U, no
\* message of U, no like by U and no follow edge from or to U.
C3_DeleteUserCascades ==
    \A s \in Sessions :
        LET u == add_user_to_g(State, s)
            after == delete_user(State, s).st
        IN  u # NoUser =>
                /\ u \notin DOMAIN after.users
                /\ \A m \in DOMAIN after.messages : after.messages[m].user_id # u
                /\ \A l \in after.likes : l[1] # u /\ l[2] \in DOMAIN after.messages
                /\ \A f \in after.follows : f[1] # u /\ f[2] # u

\* C3 witness: the logged-in user owns a message, has made a like, follows
\* another user and is followed by that user.
C3_Witness ==
    \E s \in Sessions, v \in DOMAIN users :
        LET u == add_user_to_g(State, s)
        IN  /\ u # NoUser /\ v # u
            /\ \E m \in DOMAIN messages : messages[m].user_id = u
            /\ \E l \in likes : l[1] = u
            /\ <<u, v>> \in follows
            /\ <<v, u>> \in follows

\* the rows of a result body
Rows(body) == {body[i] : i \in 1 .. Len(body)}

\* C4: for every logged-in viewer the homepage's message list holds only
\* messages of users the viewer follows, in descending order of timestamp, at
\* most 100 of them, and the most recent ones when there are more.
C4_HomeTimeline ==
    \A s \in Sessions :
        LET u == add_user_to_g(State, s)
            cand == {m \in DOMAIN messages : is_following(State, u, messages[m].user_id)}
        IN  u # NoUser =>
              \A rank \in TieOrders(State, HomeCandidates(State, u)) :
                LET r == homepage(State, s, rank)
                    body == r.body
                    n == Len(body)
                IN  /\ r.page = "home.html"
                    /\ Rows(body) \subseteq cand
                    /\ Cardinality(Rows(body)) = n
                    /\ \A i \in 1 .. n - 1 :
                          messages[body[i]].timestamp >= messages[body[i + 1]].timestamp
                    /\ n <= TimelineLimit
                    /\ n = IF Cardinality(cand) < TimelineLimit
                           THEN Cardinality(cand) ELSE TimelineLimit
                    /\ \A m \in cand \ Rows(body) :
                          messages[m].timestamp <= messages[body[n]].timestamp

\* C4 witness: a logged-in viewer follows users with more than 100 messages
\* between them, two of them of equal timestamp.
C4_Witness ==
    \E s \in Sessions :
        LET u == add_user_to_g(State, s)
            cand == HomeCandidates(State, u)
        IN  /\ u # NoUser
            /\ Cardinality(cand) > TimelineLimit
            /\ \E m \in DOMAIN messages : m \notin cand
            /\ TieOrders(State, cand) # {<<>>}

\* C5: a gated route requested with a session that resolves to no user ends
\* with the Unauthorized outcome and changes nothing in the store or the
\* session; an anonymous POST /messages/new creates no message row.
C5_AnonymousIsUnauthorized ==
    \A s \in Sessions :
        add_user_to_g(State, s) = NoUser =>
            LET Refused(r) == IsUnauthorized(r) /\ r.st = State
            IN  /\ \A form \in MessageForms, now \in clock .. MaxTime :
                      /\ Refused(messages_add(State, s, form, now))
                      /\ messages_add(State, s, form, now).st.messages = messages
                /\ \A id \in ReqMsgIds :
                      /\ Refused(messages_destroy(State, s, id))
                      /\ Refused(add_like(State, s, id))
                      /\ Refused(remove_like(State, s, id))
                /\ \A id \in ReqUserIds :
                      /\ Refused(add_follow(State, s, id))
                      /\ Refused(stop_following(State, s, id))
                      /\ Refused(show_following(State, s, id))
                      /\ Refused(users_followers(State, s, id))
                      /\ Refused(show_likes(State, s, id))
                /\ \A form \in UserEditForms : Refused(profile(State, s, form))
                /\ Refused(delete_user(State, s))

\* C5 witness: one session is anonymous and another holds the id of a user
\* that was deleted, while the store has a user, a message, a like and a
\* follow edge the refused requests could have touched.
C5_Witness ==
    /\ \E s \in Sessions : session[s] = NoUser
    /\ \E s \in Sessions : session[s] # NoUser /\ add_user_to_g(State, s) = NoUser
    /\ DOMAIN users # {}
    /\ DOMAIN messages # {}
    /\ likes # {}
    /\ follows # {}

\* C6: messages_destroy removes a message only for its owner: requested by
\* another logged-in user it ends Unauthorized and the message stays.
C6_OnlyOwnerDeletes ==
    \A s \in Sessions, m \in DOMAIN messages :
        LET u == add_user_to_g(State, s)
            r == messages_destroy(State, s, m)
        IN  (u # NoUser /\ messages[m].user_id # u) =>
                /\ IsUnauthorized(r)
                /\ m \in DOMAIN r.st.messages

\* C7: once signup has accepted a username and a password, a login with them
\* logs in and greets the user of that username, right after the signup and
\* for as long as the user exists with the username it signed up with.
C7_SignupThenLogin ==
    /\ \A s \in Sessions, s2 \in Sessions, form \in UserAddForms, salt \in Salts :
          LET made == signup(State, s, form, salt)
              r == login(made.st, s2, [username |-> form.username,
                                       password |-> form.password])
          IN  made.flash = "Welcome to Warbler" =>
                  /\ r.st.session[s2] = State.next_user_id
                  /\ r.st.users[r.st.session[s2]].username = form.username
                  /\ r.flash = "Hello, " \o form.username
    /\ \A u \in DOMAIN users, s \in Sessions :
          users[u].username = signups[u].username =>
              LET r == login(State, s, signups[u])
              IN  /\ r.status = 302
                  /\ r.flash = "Hello, " \o signups[u].username
                  /\ r.st.session[s] = u
                  /\ add_user_to_g(r.st, s) = u

\* C7 witness: two users exist, one still with the username it signed up
\* with and one whose profile was edited since, and a session that is not logged
\* in as the first.
C7_Witness ==
    \E u \in DOMAIN users, v \in DOMAIN users, s \in Sessions :
        /\ u # v
        /\ users[u].username = signups[u].username
        /\ users[v].bio # ""
        /\ session[s] # u

\* C8: a signup whose username an existing user has ends with the
\* DuplicateCredential outcome ("Username already taken", the form again) and
\* writes nothing: users, their fields and the sessions are as before.
C8_DuplicateSignup ==
    \A s \in Sessions, form \in UserAddForms, salt \in Salts :
        LET r == signup(State, s, form, salt)
        IN  (validate_on_submit(form)
             /\ \E u \in DOMAIN users : users[u].username = form.username) =>
                /\ r.status = 200
                /\ r.flash = "Username already taken"
                /\ r.page = "users/signup.html"
                /\ r.st.users = users
                /\ r.st.session = session
                /\ r.st = State

\* C8 witness: a user has the username of a form that is submitted from a
\* session logged in as nobody, while the store could still take a new user.
C8_Witness ==
    \E s \in Sessions, form \in UserAddForms, u \in DOMAIN users :
        /\ users[u].username = form.username
        /\ users[u].email # form.email
        /\ session[s] = NoUser
        /\ next_user_id <= MaxUsers

\* C9: stop_following(B) by a logged-in user A who does not follow B is a
\* no-op and no error: the request completes with its redirect and the follow
\* relation is unchanged.
C9_UnfollowWithoutEdgeIsNoOp ==
    \A s \in Sessions, b \in ReqUserIds :
        LET a == add_user_to_g(State, s)
            r == stop_following(State, s, b)
        IN  (a # NoUser /\ <<a, b>> \notin follows) =>
                /\ r.status # 500
                /\ Redirected(r, "/users/following")
                /\ r.st.follows = follows

\* C10: no state holds a self-follow edge, and an add_follow naming the
\* requester's own id is rejected.
C10_NoSelfFollow ==
    /\ \A f \in follows : f[1] # f[2]
    /\ \A s \in Sessions :
          LET a == add_user_to_g(State, s)
          IN  a # NoUser => ~Redirected(add_follow(State, s, a), "/users/following")

\* C11: the follow relation holds a pair at most once: add_follow(B) by A who
\* already follows B is a no-op (or a rejection), leaves one (A, B) edge and
\* does not end in an unhandled store error.
C11_NoDuplicateFollow ==
    \A s \in Sessions, b \in ReqUserIds :
        LET a == add_user_to_g(State, s)
            r == add_follow(State, s, b)
        IN  (a # NoUser /\ <<a, b>> \in follows) =>
                /\ r.status # 500
                /\ r.st.follows = follows
                /\ Cardinality({f \in r.st.follows : f = <<a, b>>}) = 1
                /\ r.st = State

\* C11 witness: a logged-in user A follows B and one other edge exists, so
\* that a repeated add_follow(B) by A has a relation to keep as it is.
C11_Witness ==
    \E s \in Sessions, b \in DOMAIN users :
        LET a == add_user_to_g(State, s)
        IN  a # NoUser /\ <<a, b>> \in follows /\ follows # {<<a, b>>}

\* C12: however add_like requests interleave, a (user, message) pair gets one
\* like row at most: of two requests by one user for one message that both
\* found no like, only one commits a row, and a request that found no like
\* commits no row once the pair has one.
C12_NoDoubleLike ==
    /\ \A s \in Sessions :
          LET t == like_txn[s]
              r == add_like_commit(State, t)
          IN  (t # NoTxn /\ ~t.like /\ <<t.user, t.message>> \in likes) =>
                  /\ r.flash # "You've liked the message."
                  /\ r.st.likes = likes
    /\ \A s1 \in Sessions, s2 \in Sessions :
          LET t1 == like_txn[s1]
              t2 == like_txn[s2]
              r1 == add_like_commit(State, t1)
              r2 == add_like_commit(r1.st, t2)
          IN  (s1 # s2 /\ t1 # NoTxn /\ t1 = t2 /\ ~t1.like
               /\ ~LikesConstraintViolation(State, t1.user, t1.message)) =>
                  /\ r1.flash = "You've liked the message."
                  /\ r2.flash # "You've liked the message."
                  /\ r2.st.likes = r1.st.likes
                  /\ Cardinality({l \in r2.st.likes : l = <<t1.user, t1.message>>}) = 1

\* C12 witness: two sessions of one user have each an add_like request in
\* flight for one message, both having found no like, and the pair has none
\* yet.
C12_Witness ==
    \E s1 \in Sessions, s2 \in Sessions :
        /\ s1 # s2
        /\ like_txn[s1] # NoTxn
        /\ like_txn[s1] = like_txn[s2]
        /\ ~like_txn[s1].like
        /\ <<like_txn[s1].user, like_txn[s1].message>> \notin likes
        /\ like_txn[s1].message \in DOMAIN messages

\* C13: a profile edit by a logged-in user whose current password does not
\* verify ends with the InvalidCredential outcome and changes no field of the
\* user; one whose password verifies updates username, email, image_url,
\* header_image_url, location and bio together in one commit.
C13_ProfileEditPassword ==
    \A s \in Sessions, form \in UserEditForms :
        LET u == add_user_to_g(State, s)
            r == profile(State, s, form)
        IN  (u # NoUser /\ validate_on_submit(form)) =>
                IF ~check_password_hash(users[u].password, form.password)
                THEN /\ r.status = 200
                     /\ r.flash = "Invalid current password. Please try again."
                     /\ r.page = "users/edit.html"
                     /\ r.st = State
                ELSE /\ r.status = 302
                     /\ r.flash = "Profile updated successfully."
                     /\ r.st.users[u].username = form.username
                     /\ r.st.users[u].email = form.email
                     /\ r.st.users[u].image_url = form.image_url
                     /\ r.st.users[u].header_image_url =
                            (IF form.header_image_url = "" THEN DefaultHeaderImageUrl
                             ELSE form.header_image_url)
                     /\ r.st.users[u].location = form.location
                     /\ r.st.users[u].bio = form.bio
                     /\ r.st.users[u].password = users[u].password

\* C14: a login with an existing username and a wrong password and a login
\* with a username nobody has end the same way: no user is returned, the
\* response is the same "Invalid credentials." page, the session is unchanged.
C14_LoginNoMatchSame ==
    \A s \in Sessions, wrong \in LoginForms, unknown \in LoginForms :
        (/\ validate_on_submit(wrong)
         /\ validate_on_submit(unknown)
         /\ \E u \in DOMAIN users :
               /\ users[u].username = wrong.username
               /\ ~check_password_hash(users[u].password, wrong.password)
         /\ \A u \in DOMAIN users : users[u].username # unknown.username) =>
            LET r1 == login(State, s, wrong)
                r2 == login(State, s, unknown)
            IN  /\ Authenticate(State, wrong.username, wrong.password) = NoUser
                /\ Authenticate(State, unknown.username, unknown.password) = NoUser
                /\ r1 = r2
                /\ r1.status = 200
                /\ r1.flash = "Invalid credentials."
                /\ r1.page = "users/login.html"
                /\ r1.st.session = session
                /\ r2.st.session = session
                /\ r1.st = State

\* C14 witness: one username of the login forms is a user's and another is
\* nobody's, with one session logged in and one not.
C14_Witness ==
    /\ \E u \in DOMAIN users, f \in LoginForms :
          /\ users[u].username = f.username
          /\ ~check_password_hash(users[u].password, f.password)
    /\ \E f \in LoginForms :
          /\ validate_on_submit(f)
          /\ \A u \in DOMAIN users : users[u].username # f.username
    /\ \E s \in Sessions : add_user_to_g(State, s) # NoUser
    /\ \E s \in Sessions : session[s] = NoUser

\* C15: at the start of every request the resolved identity is anonymous or
\* an existing user; a session with no user id or with the id of a user that
\* is gone resolves to anonymous, and nothing is done in the name of a user
\* that is gone: the writing requests of such a session change nothing.
C15_IdentityIsAnonymousOrExists ==
    /\ \A s \in Sessions :
          LET u == add_user_to_g(State, s)
          IN  /\ u = NoUser \/ u \in DOMAIN users
              /\ (session[s] = NoUser \/ session[s] \notin DOMAIN users) => u = NoUser
              /\ session[s] \in DOMAIN users => u = session[s]
    /\ \A s \in Sessions :
          (session[s] # NoUser /\ session[s] \notin DOMAIN users) =>
              /\ \A form \in MessageForms, now \in clock .. MaxTime :
                    messages_add(State, s, form, now).st = State
              /\ \A id \in ReqMsgIds :
                    /\ add_like(State, s, id).st = State
                    /\ messages_destroy(State, s, id).st = State
              /\ \A id \in ReqUserIds : add_follow(State, s, id).st = State
              /\ \A form \in UserEditForms : profile(State, s, form).st = State
              /\ delete_user(State, s).st = State

\* C15 witness: a session holds the id of a user that was deleted through
\* another session, while another user is logged in and has a message.
C15_Witness ==
    /\ \E s \in Sessions : session[s] # NoUser /\ session[s] \notin DOMAIN users
    /\ \E s \in Sessions : add_user_to_g(State, s) # NoUser
    /\ DOMAIN messages # {}

\* C16: showing a message by an id that names no message of the store (never
\* created, or deleted) ends with NotFound and renders no message view.
C16_ShowMissingMessageNotFound ==
    \A s \in Sessions, id \in ReqMsgIds :
        LET r == messages_show(State, s, id)
        IN  MessageGet(State, id) = NoMessage =>
                /\ r.status = 404
                /\ r.page # "messages/show.html"

\* C17: every like row references a message that exists: messages_destroy
\* removes with message M every like on M, whoever made it, and add_like
\* makes no like for a message that is not there.
C17_LikesReferenceMessages ==
    /\ \A l \in likes : l[2] \in DOMAIN messages
    /\ \A s \in Sessions, m \in DOMAIN messages :
          LET r == messages_destroy(State, s, m)
          IN  add_user_to_g(State, s) # NoUser =>
                  /\ m \notin DOMAIN r.st.messages
                  /\ \A l \in r.st.likes : l[2] # m /\ l[2] \in DOMAIN r.st.messages
                  /\ r.st.likes = {l \in likes : l[2] # m}
    /\ \A s \in Sessions, id \in ReqMsgIds :
          LET r == add_like(State, s, id)
          IN  id \notin DOMAIN messages =>
                  /\ r.st.likes = likes
                  /\ r.status = 404 \/ IsUnauthorized(r)

\* C17 witness: a message has a like by its owner and a like by another
\* user, and a logged-in user can delete it.
C17_Witness ==
    \E m \in DOMAIN messages, v \in DOMAIN users, s \in Sessions :
        /\ v # messages[m].user_id
        /\ <<messages[m].user_id, m>> \in likes
        /\ <<v, m>> \in likes
        /\ add_user_to_g(State, s) # NoUser

\* C18: for a fixed store the home timeline and the user timeline each have
\* one possible result sequence: messages of equal timestamp come in
\* descending order of their id.
C18_TimelineDeterministic ==
    /\ \A s \in Sessions :
          LET u == add_user_to_g(State, s)
              orders == TieOrders(State, HomeCandidates(State, u))
          IN  u # NoUser =>
                  \A r1 \in orders, r2 \in orders :
                      LET body == homepage(State, s, r1).body
                      IN  /\ body = homepage(State, s, r2).body
                          /\ \A i \in 1 .. Len(body) - 1 :
                                messages[body[i]].timestamp = messages[body[i + 1]].timestamp
                                    => body[i] > body[i + 1]
    /\ \A s \in Sessions, id \in DOMAIN users :
          LET orders == TieOrders(State, UserCandidates(State, id))
          IN  \A r1 \in orders, r2 \in orders :
                  LET body == users_show(State, s, id, r1).body
                  IN  /\ body = users_show(State, s, id, r2).body
                      /\ \A i \in 1 .. Len(body) - 1 :
                            messages[body[i]].timestamp = messages[body[i + 1]].timestamp
                                => body[i] > body[i + 1]

\* C19: a session's user id changes only so: a successful signup sets it to
\* the new user, a login whose password matches sets it to that user, logout
\* and account deletion clear it.  No other request changes it, nor does a
\* failed login or a failed signup, and no request changes another session.
C19_SessionChanges ==
    \A s \in Sessions :
        LET Kept(r) == r.st.session = session
            Others(r) == \A o \in Sessions \ {s} : r.st.session[o] = session[o]
        IN  /\ \A form \in UserAddForms, salt \in Salts :
                  LET r == signup(State, s, form, salt)
                  IN  IF /\ validate_on_submit(form)
                         /\ ~UsersUniqueViolation(State, NoUser, form.username, form.email)
                      THEN /\ r.st.session[s] = next_user_id
                           /\ next_user_id \in DOMAIN r.st.users \ DOMAIN users
                           /\ r.st.users[next_user_id].username = form.username
                           /\ Others(r)
                      ELSE Kept(r)
            /\ \A form \in LoginForms :
                  LET r == login(State, s, form)
                      match == {u \in DOMAIN users :
                                   /\ users[u].username = form.username
                                   /\ check_password_hash(users[u].password,
                                                          form.password)}
                  IN  IF validate_on_submit(form) /\ match # {}
                      THEN r.st.session[s] \in match /\ Others(r)
                      ELSE Kept(r)
            /\ LET r == logout(State, s)
               IN  r.st.session[s] = NoUser /\ Others(r)
            /\ LET r == delete_user(State, s)
               IN  IF add_user_to_g(State, s) # NoUser
                   THEN r.st.session[s] = NoUser /\ Others(r)
                   ELSE Kept(r)
            /\ \A id \in ReqUserIds :
                  /\ \A rank \in TieOrders(State, UserCandidates(State, id)) :
                        Kept(users_show(State, s, id, rank))
                  /\ Kept(show_following(State, s, id))
                  /\ Kept(users_followers(State, s, id))
                  /\ Kept(add_follow(State, s, id))
                  /\ Kept(stop_following(State, s, id))
                  /\ Kept(show_likes(State, s, id))
            /\ \A id \in ReqMsgIds :
                  /\ Kept(messages_show(State, s, id))
                  /\ Kept(messages_destroy(State, s, id))
                  /\ Kept(add_like(State, s, id))
                  /\ Kept(remove_like(State, s, id))
            /\ \A form \in UserEditForms : Kept(profile(State, s, form))
            /\ \A form \in MessageForms, now \in clock .. MaxTime :
                  Kept(messages_add(State, s, form, now))
            /\ \A rank \in TieOrders(State, HomeCandidates(State, add_user_to_g(State, s))) :
                  Kept(homepage(State, s, rank))

\* C19 witness: a session is logged in as a user X whose username a signup
\* form repeats and whose password a login form misses, and another session
\* is logged out.
C19_Witness ==
    \E s \in Sessions, o \in Sessions :
        LET x == add_user_to_g(State, s)
        IN  /\ x # NoUser
            /\ session[o] = NoUser
            /\ \E form \in UserAddForms :
                  validate_on_submit(form) /\ users[x].username = form.username
            /\ \E form \in LoginForms :
                  /\ users[x].username = form.username
                  /\ ~check_password_hash(users[x].password, form.password)

====
